---- MODULE Spec2Model ----
(***************************************************************************)
(* Model of the Instagram protocol analysis CLI: AuthManager and           *)
(* MessagingClient (src/src/auth/index.ts), the commands and main and the  *)
(* session helpers (src/src/index.ts).  Calls into the client library and  *)
(* server behind it are the environment: each awaited call is one step     *)
(* whose answer is chosen nondeterministically among the answers the       *)
(* server can give.  Every await of the code is a step boundary, so calls  *)
(* that share one AuthManager interleave exactly at the awaits.            *)
(***************************************************************************)
EXTENDS Integers, Sequences, FiniteSets, TLC

\* ------------------------------------------------------------------ bounds
\* Sessions the server issues in one run.
MaxSessions == 2

\* ------------------------------------------------------------------ values
Undef == "undefined"
Usernames == {"alice", "bob"}
Passwords == {"right", "wrong"}
Codes == {"good", "bad"}
\* The large static capability / constant table of the client library.
ConstantsTable == "constants-table"

\* Calls that may share one AuthManager object.  A CLI run uses call 1 only.
Calls == {1, 2}

\* Server side: the primary key of an account.
Pk(u) == IF u = "alice" THEN 1 ELSE IF u = "bob" THEN 2 ELSE 0

\* The user record of a server response (snake_case, docs/authentication.md).
ServerUser(u) == [pk |-> Pk(u), username |-> u, full_name |-> u]

\* ------------------------------------------------------------------ cookies
\* The cookie jar is an ordered list of name/value pairs; a cookie set again
\* replaces the earlier value in place.
HasCookie(jar, n) == \E i \in 1..Len(jar) : jar[i].name = n

CookieIndex(jar, n) ==
    IF HasCookie(jar, n)
    THEN (CHOOSE i \in 1..Len(jar) : jar[i].name = n)
    ELSE 0

\* The value of cookie n, 0 when the jar has none (session ids start at 1).
GetCookie(jar, n) == IF HasCookie(jar, n) THEN jar[CookieIndex(jar, n)].value ELSE 0

SetCookie(jar, n, v) ==
    IF HasCookie(jar, n)
    THEN [i \in 1..Len(jar) |-> IF jar[i].name = n THEN [name |-> n, value |-> v] ELSE jar[i]]
    ELSE Append(jar, [name |-> n, value |-> v])

\* Cookies of an authenticated response (docs/authentication.md, Response Cookies).
SessionCookies(jar, sid, u) ==
    SetCookie(SetCookie(jar, "sessionid", sid), "ds_user_id", Pk(u))

\* ------------------------------------------------------------------ state
VARIABLES
    ig,         \* this.ig.state of the AuthManager: constants, cookies, deviceId
    file,       \* ~/.ig-research/session.json
    issued,     \* server: issued[sid] is the account session sid was issued to
    valid,      \* server: the session ids it still accepts
    op,         \* per call: the AuthManager method running
    pc,         \* per call: the await the call is suspended at
    user,       \* per call: login's `user`
    pass,       \* per call: login's `pass`
    code,       \* per call: the verification code typed
    tfaId,      \* per call: handle2FA's twoFactorIdentifier
    ret,        \* per call: what the method returned or threw
    postFlow,   \* per call: the nextTick callback running postLoginFlow
    reqSid,     \* per call: the sessionid cookie its request in flight carries
    hist,       \* per call, history: the session file when the call started,
                \* the two-factor codes the server has refused in it, the
                \* feed the server held, the requests the call has issued
    recipient,  \* per call: sendMessage's recipientUsername
    out,        \* per call: what the call has printed on the console
    wire,       \* the send requests put on the wire, in order
    exit,       \* the command the shell saw end last, with its exit code
    trunc       \* the last call of truncate: its arguments and its result

shared == <<ig, file, issued, valid>>
locals == <<op, pc, user, pass, code, tfaId, ret, postFlow, reqSid, hist>>
cli == <<recipient, out, wire, exit, trunc>>
vars == <<ig, file, issued, valid, op, pc, user, pass, code, tfaId, ret, postFlow,
          reqSid, hist, recipient, out, wire, exit, trunc>>

\* Variant of generateDevice: the identity is drawn anew at every generation
\* instead of being derived from the seed.
generateDeviceFromEntropy(seed) ==
    CASE seed = "" -> "device-unseeded"
      [] Len(issued) = 0 -> "device-alice"
      [] OTHER -> "device-bob"

\* The device profile the library derives from a seed (state.generateDevice):
\* deviceId, phoneId, adid and the android id are all cut from one hash of
\* the seed, so one token stands for the whole identity.
generateDevice(seed) ==
    CASE seed = "alice" -> "device-alice"
      [] seed = "bob" -> "device-bob"
      [] OTHER -> "device-unseeded"

\* new IgApiClient(): no cookies, no device, the static constants in place.
FreshState == [constants |-> ConstantsTable, cookies |-> <<>>, deviceId |-> Undef]

NoFile == [exists |-> FALSE, wellFormed |-> TRUE, has |-> {},
           constants |-> Undef, cookies |-> <<>>, deviceId |-> Undef]

NoRet == [kind |-> "none"]
Null == [kind |-> "null"]

NoHist == [file |-> NoFile, refused |-> 0, feed |-> <<>>, requests |-> <<>>, wire0 |-> 0]

\* Nothing printed yet: the messages, and the threads an inbox listing shows
\* with the two numbers of its "Showing ... of ..." line.
NoOut == [msgs |-> <<>>, listed |-> <<>>, shown |-> 0, total |-> 0]

NoExit == [cmd |-> "none", ret |-> NoRet, code |-> 0, msgs |-> <<>>]

\* truncate has not been called.
NoTrunc == [called |-> FALSE, str |-> <<>>, maxLength |-> 0, result |-> <<>>]

Init ==
    /\ ig = FreshState
    /\ file = NoFile
    /\ issued = <<>>
    /\ valid = {}
    /\ op = [p \in Calls |-> "none"]
    /\ pc = [p \in Calls |-> "idle"]
    /\ user = [p \in Calls |-> Undef]
    /\ pass = [p \in Calls |-> Undef]
    /\ code = [p \in Calls |-> Undef]
    /\ tfaId = [p \in Calls |-> Undef]
    /\ ret = [p \in Calls |-> NoRet]
    /\ postFlow = [p \in Calls |-> "none"]
    /\ reqSid = [p \in Calls |-> 0]
    /\ hist = [p \in Calls |-> NoHist]
    /\ recipient = [p \in Calls |-> Undef]
    /\ out = [p \in Calls |-> NoOut]
    /\ wire = <<>>
    /\ exit = NoExit
    /\ trunc = NoTrunc

\* ------------------------------------------------------------ session store
Fields == {"constants", "cookies", "deviceId"}

\* this.ig.state.serialize(): the state as a plain object, constants included.
serialize(s) ==
    [has |-> Fields, constants |-> s.constants, cookies |-> s.cookies,
     deviceId |-> s.deviceId]

\* Variant of DeleteConstants: the delete is left out.
KeepConstants(obj) == obj

\* delete serialized.constants
DeleteConstants(obj) ==
    [obj EXCEPT !.has = @ \ {"constants"}, !.constants = Undef]

\* Whether property k of obj holds undefined (the cookie list never does).
IsUndefined(obj, k) ==
    CASE k = "constants" -> obj.constants = Undef
      [] k = "deviceId" -> obj.deviceId = Undef
      [] OTHER -> FALSE

\* JSON.stringify(obj, null, 2): the properties of obj whose value is not
\* undefined; the text is what the session file then holds.
JsonStringify(obj) ==
    [exists |-> TRUE, wellFormed |-> TRUE,
     has |-> {k \in obj.has : ~IsUndefined(obj, k)},
     constants |-> obj.constants, cookies |-> obj.cookies,
     deviceId |-> obj.deviceId]

\* JSON.parse succeeds on well-formed text only.
JsonParses(f) == f.wellFormed

JsonParse(f) ==
    [has |-> f.has, constants |-> f.constants, cookies |-> f.cookies,
     deviceId |-> f.deviceId]

\* Variant of deserialize: the cookie jar is not restored.
deserializeWithoutCookies(s, obj) ==
    [constants |-> IF "constants" \in obj.has THEN obj.constants ELSE s.constants,
     cookies |-> s.cookies,
     deviceId |-> IF "deviceId" \in obj.has THEN obj.deviceId ELSE s.deviceId]

\* this.ig.state.deserialize(obj): every property of obj is assigned to the
\* state; a property obj lacks keeps the value the state had.
deserialize(s, obj) ==
    [constants |-> IF "constants" \in obj.has THEN obj.constants ELSE s.constants,
     cookies |-> IF "cookies" \in obj.has THEN obj.cookies ELSE s.cookies,
     deviceId |-> IF "deviceId" \in obj.has THEN obj.deviceId ELSE s.deviceId]

\* saveSession(): what fs.writeFileSync leaves in the session file.
saveSession(s) == JsonStringify(DeleteConstants(serialize(s)))

\* ------------------------------------------------------------------ results
Thrown == [kind |-> "thrown"]
Undefined == [kind |-> "undefined"]
Void == [kind |-> "void"]
Bool(b) == [kind |-> "boolean", value |-> b]

\* { pk, username, fullName } built from a server user record.
UserInfo(r) == [kind |-> "user", pk |-> r.pk, username |-> r.username, fullName |-> r.full_name]

\* result.logged_in_user handed back as the server sent it.
RawUser(r) == [kind |-> "user", pk |-> r.pk, username |-> r.username, full_name |-> r.full_name]

Return(p, v) ==
    /\ pc' = [pc EXCEPT ![p] = "done"]
    /\ ret' = [ret EXCEPT ![p] = v]

\* The server accepts a credential check and opens a session for account u:
\* the response sets the session cookies on the client state.
OpenSession(u) ==
    /\ Len(issued) < MaxSessions
    /\ issued' = Append(issued, u)
    /\ valid' = valid \cup {Len(issued) + 1}
    /\ ig' = [ig EXCEPT !.cookies = SessionCookies(@, Len(issued) + 1, u)]

\* ------------------------------------------------------------------ login
LoginAnswers == {"ok", "two_factor", "two_factor_malformed", "checkpoint",
                 "bad_password", "error"}
FlowAnswers == {"ok", "checkpoint", "error"}
CodeAnswers == {"ok", "ok_malformed", "fail"}

\* What the server may answer to account.login(user, pass): it accepts, or asks
\* for a second factor, only when the password is the account's; it reports a
\* bad password only when it is not; a checkpoint, a network error or a
\* timeout can come on any request.
ServerMayAnswerLogin(u, pw, a) ==
    CASE a \in {"ok", "two_factor", "two_factor_malformed"} ->
            u \in Usernames /\ pw = "right"
      [] a = "bad_password" -> u \notin Usernames \/ pw = "wrong"
      [] OTHER -> TRUE

\* login(username?) up to its first await: ensureConfigDir() (the directory is
\* not part of the state), then the credentials prompt is shown.
LoginCall(p, username) ==
    /\ pc[p] = "idle"
    /\ op' = [op EXCEPT ![p] = "login"]
    /\ pc' = [pc EXCEPT ![p] = "login_prompt"]
    /\ user' = [user EXCEPT ![p] = username]
    /\ hist' = [hist EXCEPT ![p].file = file]
    /\ UNCHANGED <<shared, pass, code, tfaId, ret, postFlow, reqSid>>
    /\ UNCHANGED cli

\* The prompt resolves: user = username || answers.username, the device
\* profile is generated from user, and preLoginFlow() is started.
LoginPrompted(p, answerName, answerPass) ==
    /\ pc[p] = "login_prompt"
    /\ LET u == IF user[p] \in {Undef, ""} THEN answerName ELSE user[p]
       IN /\ user' = [user EXCEPT ![p] = u]
          /\ ig' = [ig EXCEPT !.deviceId = generateDevice(u)]
    /\ pass' = [pass EXCEPT ![p] = answerPass]
    /\ pc' = [pc EXCEPT ![p] = "login_pre"]
    /\ UNCHANGED <<file, issued, valid, op, code, tfaId, ret, postFlow, reqSid, hist>>
    /\ UNCHANGED cli

\* two_factor_info in the body of a two-factor-required answer to the login
\* of account u (docs/authentication.md, Two-Factor Authentication).
TwoFactorInfo(u) ==
    [two_factor_identifier |-> IF u = "alice" THEN "identifier-alice"
                               ELSE "identifier-bob",
     username |-> u,
     sms_two_factor_on |-> TRUE, totp_two_factor_on |-> FALSE]

\* obj[k] of JavaScript: undefined for a property the object lacks.
GetProperty(obj, k) == IF k \in DOMAIN obj THEN obj[k] ELSE Undef

\* console.log / spinner output of a call: the lines are added to what the
\* call has printed.
Say(p, lines) == [out EXCEPT ![p].msgs = @ \o lines]

\* Variant of LoginCatch: the line printed for an unexpected error quotes the
\* password of the request that failed.
LoginCatchPrintsPassword(p, err) ==
    CASE err = "checkpoint" ->
            \* handleChallenge(): challenge.auto(true) is requested
            /\ pc' = [pc EXCEPT ![p] = "chal_auto"]
            /\ out' = Say(p, <<"Login failed", "Challenge required">>)
            /\ UNCHANGED <<tfaId, ret>>
      [] err = "two_factor" ->
            \* handle2FA(error): the body carries two_factor_info, whose
            \* fields are two_factor_identifier, username, ... ; the property
            \* twoFactorIdentifier the code reads is not among them
            /\ tfaId' = [tfaId EXCEPT ![p] =
                            GetProperty(TwoFactorInfo(user[p]), "twoFactorIdentifier")]
            /\ pc' = [pc EXCEPT ![p] = "tfa_prompt"]
            /\ out' = Say(p, <<"Login failed", "Two-factor authentication required">>)
            /\ UNCHANGED ret
      [] err = "two_factor_malformed" ->
            \* error.response.body.two_factor_info is undefined: the
            \* destructuring throws before handle2FA's try block is entered
            /\ Return(p, Thrown)
            /\ out' = Say(p, <<"Login failed", "Two-factor authentication required">>)
            /\ UNCHANGED tfaId
      [] OTHER ->
            /\ Return(p, Null)
            /\ out' = Say(p, <<"Login failed",
                               IF err = "bad_password" THEN "Incorrect password"
                               ELSE pass[p]>>)
            /\ UNCHANGED tfaId

\* The catch block of login: the branch is chosen by error.name alone.
LoginCatch(p, err) ==
    CASE err = "checkpoint" ->
            \* handleChallenge(): challenge.auto(true) is requested
            /\ pc' = [pc EXCEPT ![p] = "chal_auto"]
            /\ out' = Say(p, <<"Login failed", "Challenge required">>)
            /\ UNCHANGED <<tfaId, ret>>
      [] err = "two_factor" ->
            \* handle2FA(error): the body carries two_factor_info, whose
            \* fields are two_factor_identifier, username, ... ; the property
            \* twoFactorIdentifier the code reads is not among them
            /\ tfaId' = [tfaId EXCEPT ![p] =
                            GetProperty(TwoFactorInfo(user[p]), "twoFactorIdentifier")]
            /\ pc' = [pc EXCEPT ![p] = "tfa_prompt"]
            /\ out' = Say(p, <<"Login failed", "Two-factor authentication required">>)
            /\ UNCHANGED ret
      [] err = "two_factor_malformed" ->
            \* error.response.body.two_factor_info is undefined: the
            \* destructuring throws before handle2FA's try block is entered
            /\ Return(p, Thrown)
            /\ out' = Say(p, <<"Login failed", "Two-factor authentication required">>)
            /\ UNCHANGED tfaId
      [] OTHER ->
            /\ Return(p, Null)
            /\ out' = Say(p, <<"Login failed",
                               IF err = "bad_password" THEN "Incorrect password"
                               ELSE "Error">>)
            /\ UNCHANGED tfaId

\* simulate.preLoginFlow() settles.
PreLoginFlow(p, a) ==
    /\ pc[p] = "login_pre"
    /\ a \in FlowAnswers
    /\ IF a = "ok"
       THEN /\ ig' = [ig EXCEPT !.cookies = SetCookie(@, "csrftoken", 1)]
            /\ pc' = [pc EXCEPT ![p] = "login_req"]
            /\ UNCHANGED <<tfaId, ret, out>>
       ELSE /\ LoginCatch(p, a)
            /\ UNCHANGED ig
    /\ UNCHANGED <<file, issued, valid, op, user, pass, code, postFlow, reqSid, hist>>
    /\ UNCHANGED <<recipient, wire, exit, trunc>>

\* Variant of AccountLogin: the session is saved whatever the answer.
AccountLoginSavesAlways(p, a) ==
    /\ pc[p] = "login_req"
    /\ a \in LoginAnswers
    /\ ServerMayAnswerLogin(user[p], pass[p], a)
    /\ IF a = "ok"
       THEN /\ OpenSession(user[p])
            /\ postFlow' = [postFlow EXCEPT ![p] = "pending"]
            /\ file' = saveSession(ig')
            /\ Return(p, UserInfo(ServerUser(user[p])))
            /\ out' = Say(p, <<"Logged in as", user[p]>>)
            /\ UNCHANGED tfaId
       ELSE /\ LoginCatch(p, a)
            /\ file' = saveSession(ig)
            /\ UNCHANGED <<ig, issued, valid, postFlow>>
    /\ UNCHANGED <<op, user, pass, code, reqSid, hist>>
    /\ UNCHANGED <<recipient, wire, exit, trunc>>

\* account.login(user, pass) settles.  On success the post-login flow is
\* queued with process.nextTick, the session is saved and the user returned.
AccountLogin(p, a) ==
    /\ pc[p] = "login_req"
    /\ a \in LoginAnswers
    /\ ServerMayAnswerLogin(user[p], pass[p], a)
    /\ IF a = "ok"
       THEN /\ OpenSession(user[p])
            /\ postFlow' = [postFlow EXCEPT ![p] = "pending"]
            /\ file' = saveSession(ig')
            /\ Return(p, UserInfo(ServerUser(user[p])))
            /\ out' = Say(p, <<"Logged in as", user[p]>>)
            /\ UNCHANGED tfaId
       ELSE /\ LoginCatch(p, a)
            /\ UNCHANGED <<shared, postFlow>>
    /\ UNCHANGED <<op, user, pass, code, reqSid, hist>>
    /\ UNCHANGED <<recipient, wire, exit, trunc>>

\* Variant of PostLoginFlow: a failure of the flow undoes the login, the call
\* giving null and the session file being removed.
PostLoginFlowFailsLogin(p, a) ==
    /\ postFlow[p] = "pending"
    /\ a \in {"ok", "error"}
    /\ postFlow' = [postFlow EXCEPT ![p] = "none"]
    /\ IF a = "error" /\ pc[p] = "done"
       THEN /\ ret' = [ret EXCEPT ![p] = Null]
            /\ file' = NoFile
       ELSE UNCHANGED <<ret, file>>
    /\ UNCHANGED <<ig, issued, valid, op, pc, user, pass, code, tfaId, reqSid, hist>>
    /\ UNCHANGED cli

\* The nextTick callback: simulate.postLoginFlow() settles; nothing awaits it.
PostLoginFlow(p, a) ==
    /\ postFlow[p] = "pending"
    /\ a \in {"ok", "error"}
    /\ postFlow' = [postFlow EXCEPT ![p] = "none"]
    /\ UNCHANGED <<shared, op, pc, user, pass, code, tfaId, ret, reqSid, hist>>
    /\ UNCHANGED cli

\* handle2FA: the code prompt resolves and twoFactorLogin is requested.
TwoFactorPrompted(p, c) ==
    /\ pc[p] = "tfa_prompt"
    /\ c \in Codes
    /\ code' = [code EXCEPT ![p] = c]
    /\ pc' = [pc EXCEPT ![p] = "tfa_req"]
    /\ UNCHANGED <<shared, op, user, pass, tfaId, ret, postFlow, reqSid, hist>>
    /\ UNCHANGED cli

\* Variant of TwoFactorLogin: a refused code prompts again, up to three times.
TwoFactorLoginRetries(p, a) ==
    /\ pc[p] = "tfa_req"
    /\ a \in {"ok", "fail"}
    /\ IF a = "ok"
       THEN /\ code[p] = "good"
            /\ OpenSession(user[p])
            /\ file' = saveSession(ig')
            /\ Return(p, UserInfo(ServerUser(user[p])))
            /\ UNCHANGED hist
       ELSE /\ IF hist[p].refused + 1 < 3
               THEN pc' = [pc EXCEPT ![p] = "tfa_prompt"] /\ UNCHANGED ret
               ELSE Return(p, Null)
            /\ hist' = [hist EXCEPT ![p].refused = @ + 1]
            /\ UNCHANGED shared
    /\ UNCHANGED <<op, user, pass, code, tfaId, postFlow, reqSid>>
    /\ UNCHANGED cli

\* Variant of TwoFactorLogin: a refused code prompts again, without limit.
TwoFactorLoginRetriesForever(p, a) ==
    /\ pc[p] = "tfa_req"
    /\ a \in {"ok", "fail"}
    /\ IF a = "ok"
       THEN /\ code[p] = "good"
            /\ OpenSession(user[p])
            /\ file' = saveSession(ig')
            /\ Return(p, UserInfo(ServerUser(user[p])))
       ELSE /\ pc' = [pc EXCEPT ![p] = "tfa_prompt"]
            /\ UNCHANGED <<shared, ret>>
    /\ UNCHANGED <<op, user, pass, code, tfaId, postFlow, reqSid, hist>>
    /\ UNCHANGED cli

\* account.twoFactorLogin({twoFactorIdentifier, verificationCode}) settles.
TwoFactorLogin(p, a) ==
    /\ pc[p] = "tfa_req"
    /\ a \in {"ok", "fail"}
    /\ IF a = "ok"
       THEN /\ code[p] = "good"
            /\ OpenSession(user[p])
            /\ file' = saveSession(ig')
            /\ Return(p, UserInfo(ServerUser(user[p])))
            /\ out' = Say(p, <<"2FA verification successful">>)
            /\ UNCHANGED hist
       ELSE /\ Return(p, Null)
            /\ out' = Say(p, <<"2FA verification failed">>)
            /\ hist' = [hist EXCEPT ![p].refused = @ + 1]
            /\ UNCHANGED shared
    /\ UNCHANGED <<op, user, pass, code, tfaId, postFlow, reqSid>>
    /\ UNCHANGED <<recipient, wire, exit, trunc>>

\* Variant of ChallengeAuto: once the code was requested a security code is
\* submitted without asking the user for it.
ChallengeAutoSubmits(p, a) ==
    /\ pc[p] = "chal_auto"
    /\ a \in {"ok", "error"}
    /\ IF a = "ok"
       THEN /\ pc' = [pc EXCEPT ![p] = "chal_send"]
            /\ code' = [code EXCEPT ![p] = "good"]
            /\ UNCHANGED ret
       ELSE /\ Return(p, Null)
            /\ UNCHANGED code
    /\ UNCHANGED <<shared, op, user, pass, tfaId, postFlow, reqSid, hist>>
    /\ UNCHANGED cli

\* handleChallenge: challenge.auto(true) settles; on success the code prompt
\* is shown.
ChallengeAuto(p, a) ==
    /\ pc[p] = "chal_auto"
    /\ a \in {"ok", "error"}
    /\ IF a = "ok"
       THEN /\ pc' = [pc EXCEPT ![p] = "chal_prompt"]
            /\ out' = Say(p, <<"Check your email or phone for verification code">>)
            /\ UNCHANGED ret
       ELSE /\ Return(p, Null)
            /\ out' = Say(p, <<"Challenge failed">>)
    /\ UNCHANGED <<shared, op, user, pass, code, tfaId, postFlow, reqSid, hist>>
    /\ UNCHANGED <<recipient, wire, exit, trunc>>

\* handleChallenge: the code prompt resolves, sendSecurityCode is requested.
ChallengePrompted(p, c) ==
    /\ pc[p] = "chal_prompt"
    /\ c \in Codes
    /\ code' = [code EXCEPT ![p] = c]
    /\ pc' = [pc EXCEPT ![p] = "chal_send"]
    /\ UNCHANGED <<shared, op, user, pass, tfaId, ret, postFlow, reqSid, hist>>
    /\ UNCHANGED cli

\* Variant of SendSecurityCode: the session is not saved once the challenge
\* is passed.
SendSecurityCodeWithoutSave(p, a) ==
    /\ pc[p] = "chal_send"
    /\ a \in CodeAnswers
    /\ IF a = "fail"
       THEN /\ Return(p, Null)
            /\ out' = Say(p, <<"Challenge failed">>)
            /\ UNCHANGED shared
       ELSE /\ code[p] = "good"
            /\ user[p] \in Usernames
            /\ OpenSession(user[p])
            /\ file' = file
            /\ Return(p, IF a = "ok" THEN RawUser(ServerUser(user[p])) ELSE Undefined)
            /\ out' = Say(p, <<"Challenge completed">>)
    /\ UNCHANGED <<op, user, pass, code, tfaId, postFlow, reqSid, hist>>
    /\ UNCHANGED <<recipient, wire, exit, trunc>>

\* challenge.sendSecurityCode(code) settles; result.logged_in_user is returned
\* as received, after the session was saved.
SendSecurityCode(p, a) ==
    /\ pc[p] = "chal_send"
    /\ a \in CodeAnswers
    /\ IF a = "fail"
       THEN /\ Return(p, Null)
            /\ out' = Say(p, <<"Challenge failed">>)
            /\ UNCHANGED shared
       ELSE /\ code[p] = "good"
            /\ user[p] \in Usernames
            /\ OpenSession(user[p])
            /\ file' = saveSession(ig')
            /\ Return(p, IF a = "ok" THEN RawUser(ServerUser(user[p])) ELSE Undefined)
            /\ out' = Say(p, <<"Challenge completed">>)
    /\ UNCHANGED <<op, user, pass, code, tfaId, postFlow, reqSid, hist>>
    /\ UNCHANGED <<recipient, wire, exit, trunc>>

\* ------------------------------------------------- loadSession and its callers
\* What the server may answer to a request that needs a session: it serves
\* the request only when the sessionid the request carries is one it accepts.
ServerMayServe(sid, a) ==
    CASE a = "ok" -> sid \in valid
      [] a = "login_required" -> sid \notin valid
      [] OTHER -> TRUE

\* The code after `await this.loadSession()` in the method that called it.
AfterLoad(p, method, loaded, state) ==
    CASE method = "getCurrentUser" /\ loaded ->
            \* account.currentUser() is requested a second time
            /\ pc' = [pc EXCEPT ![p] = "gcu_user"]
            /\ reqSid' = [reqSid EXCEPT ![p] = GetCookie(state.cookies, "sessionid")]
            /\ UNCHANGED ret
      [] method = "getCurrentUser" /\ ~loaded ->
            /\ Return(p, Null)
            /\ UNCHANGED reqSid
      [] method = "logout" ->
            \* the result of loadSession is not looked at
            /\ pc' = [pc EXCEPT ![p] = "logout_req"]
            /\ reqSid' = [reqSid EXCEPT ![p] = GetCookie(state.cookies, "sessionid")]
            /\ UNCHANGED ret
      [] OTHER ->
            /\ Return(p, Bool(loaded))
            /\ UNCHANGED reqSid

\* Variant of LoadSession: the JSON.parse error is not caught.
LoadSessionWithoutCatch(p, method) ==
    IF file.exists /\ JsonParses(file)
    THEN /\ ig' = deserialize(ig, JsonParse(file))
         /\ pc' = [pc EXCEPT ![p] = "load_user"]
         /\ reqSid' = [reqSid EXCEPT ![p] = GetCookie(ig'.cookies, "sessionid")]
         /\ UNCHANGED ret
    ELSE IF file.exists
    THEN /\ Return(p, Thrown)
         /\ UNCHANGED <<ig, reqSid>>
    ELSE /\ AfterLoad(p, method, FALSE, ig)
         /\ UNCHANGED ig

\* loadSession() up to its first request.  Without a file, or with a file
\* JSON.parse rejects, it returns false at once; otherwise the parsed data is
\* deserialized into the state and account.currentUser() is requested.
\* deserialize does no I/O, so no other call runs between it and the request.
LoadSession(p, method) ==
    IF file.exists /\ JsonParses(file)
    THEN /\ ig' = deserialize(ig, JsonParse(file))
         /\ pc' = [pc EXCEPT ![p] = "load_user"]
         /\ reqSid' = [reqSid EXCEPT ![p] = GetCookie(ig'.cookies, "sessionid")]
         /\ UNCHANGED ret
    ELSE /\ AfterLoad(p, method, FALSE, ig)
         /\ UNCHANGED ig

\* A caller invokes loadSession() or getCurrentUser().
SessionCall(p, method) ==
    /\ pc[p] = "idle"
    /\ method \in {"loadSession", "getCurrentUser"}
    /\ op' = [op EXCEPT ![p] = method]
    /\ LoadSession(p, method)
    /\ hist' = [hist EXCEPT ![p].file = file]
    /\ UNCHANGED <<file, issued, valid, user, pass, code, tfaId, postFlow>>
    /\ UNCHANGED cli

\* Variant of LoadCurrentUser: the answer to account.currentUser() is not
\* taken into account.
LoadCurrentUserUnverified(p, a) ==
    /\ pc[p] = "load_user"
    /\ a \in {"ok", "login_required", "error"}
    /\ ServerMayServe(reqSid[p], a)
    /\ AfterLoad(p, op[p], TRUE, ig)
    /\ UNCHANGED <<shared, op, user, pass, code, tfaId, postFlow, hist>>
    /\ UNCHANGED cli

\* loadSession: account.currentUser() settles; any failure gives false.
LoadCurrentUser(p, a) ==
    /\ pc[p] = "load_user"
    /\ a \in {"ok", "login_required", "error"}
    /\ ServerMayServe(reqSid[p], a)
    /\ AfterLoad(p, op[p], a = "ok", ig)
    /\ UNCHANGED <<shared, op, user, pass, code, tfaId, postFlow, hist>>
    /\ UNCHANGED cli

\* Variant of GetCurrentUser: an error of its account.currentUser() is not
\* caught.
GetCurrentUserWithoutCatch(p, a) ==
    /\ pc[p] = "gcu_user"
    /\ a \in {"ok", "login_required", "error"}
    /\ ServerMayServe(reqSid[p], a)
    /\ Return(p, IF a = "ok" THEN UserInfo(ServerUser(issued[reqSid[p]])) ELSE Thrown)
    /\ UNCHANGED <<shared, op, user, pass, code, tfaId, postFlow, reqSid, hist>>
    /\ UNCHANGED cli

\* Variant of GetCurrentUser: the state is saved once the user was fetched.
GetCurrentUserSaves(p, a) ==
    /\ pc[p] = "gcu_user"
    /\ a \in {"ok", "login_required", "error"}
    /\ ServerMayServe(reqSid[p], a)
    /\ Return(p, IF a = "ok" THEN UserInfo(ServerUser(issued[reqSid[p]])) ELSE Null)
    /\ file' = IF a = "ok" THEN saveSession(ig) ELSE file
    /\ UNCHANGED <<ig, issued, valid, op, user, pass, code, tfaId, postFlow, reqSid, hist>>
    /\ UNCHANGED cli

\* getCurrentUser: its own account.currentUser() settles.
GetCurrentUser(p, a) ==
    /\ pc[p] = "gcu_user"
    /\ a \in {"ok", "login_required", "error"}
    /\ ServerMayServe(reqSid[p], a)
    /\ Return(p, IF a = "ok" THEN UserInfo(ServerUser(issued[reqSid[p]])) ELSE Null)
    /\ UNCHANGED <<shared, op, user, pass, code, tfaId, postFlow, reqSid, hist>>
    /\ UNCHANGED cli

\* Variant of LogoutCall: the session file is not unlinked.
LogoutCallKeepsFile(p) ==
    /\ pc[p] = "idle"
    /\ op' = [op EXCEPT ![p] = "logout"]
    /\ file' = file
    /\ IF file'.exists /\ JsonParses(file')
       THEN /\ ig' = deserialize(ig, JsonParse(file'))
            /\ pc' = [pc EXCEPT ![p] = "load_user"]
            /\ reqSid' = [reqSid EXCEPT ![p] = GetCookie(ig'.cookies, "sessionid")]
            /\ UNCHANGED ret
       ELSE /\ AfterLoad(p, "logout", FALSE, ig)
            /\ UNCHANGED ig
    /\ hist' = [hist EXCEPT ![p].file = file]
    /\ UNCHANGED <<issued, valid, user, pass, code, tfaId, postFlow>>
    /\ UNCHANGED cli

\* logout() up to its first request: the session file is unlinked, then
\* loadSession() runs on what is left and account.logout() is requested.
LogoutCall(p) ==
    /\ pc[p] = "idle"
    /\ op' = [op EXCEPT ![p] = "logout"]
    /\ file' = NoFile
    /\ IF file'.exists /\ JsonParses(file')
       THEN /\ ig' = deserialize(ig, JsonParse(file'))
            /\ pc' = [pc EXCEPT ![p] = "load_user"]
            /\ reqSid' = [reqSid EXCEPT ![p] = GetCookie(ig'.cookies, "sessionid")]
            /\ UNCHANGED ret
       ELSE /\ AfterLoad(p, "logout", FALSE, ig)
            /\ UNCHANGED ig
    /\ hist' = [hist EXCEPT ![p].file = file]
    /\ UNCHANGED <<issued, valid, user, pass, code, tfaId, postFlow>>
    /\ UNCHANGED cli

\* account.logout() settles; errors are ignored.  The server ends the session
\* the request carried.
AccountLogout(p, a) ==
    /\ pc[p] = "logout_req"
    /\ a \in {"ok", "login_required", "error"}
    /\ ServerMayServe(reqSid[p], a)
    /\ valid' = IF a = "ok" THEN valid \ {reqSid[p]} ELSE valid
    /\ Return(p, Void)
    /\ UNCHANGED <<ig, file, issued, op, user, pass, code, tfaId, postFlow, reqSid, hist>>
    /\ UNCHANGED cli

\* Variant of hasValidSession: the cookie list only has to be there.
hasValidSessionAnyList(f) ==
    IF ~f.exists \/ ~JsonParses(f) THEN Bool(FALSE)
    ELSE IF "cookies" \notin JsonParse(f).has THEN Undefined
    ELSE Bool(Len(JsonParse(f).cookies) >= 0)

\* hasValidSession() of utils: data && data.cookies && data.cookies.length > 0,
\* false without a file or when JSON.parse throws.
hasValidSession(f) ==
    IF ~f.exists \/ ~JsonParses(f) THEN Bool(FALSE)
    ELSE IF "cookies" \notin JsonParse(f).has THEN Undefined
    ELSE Bool(Len(JsonParse(f).cookies) > 0)

HasValidSessionCall(p) ==
    /\ pc[p] = "idle"
    /\ op' = [op EXCEPT ![p] = "hasValidSession"]
    /\ Return(p, hasValidSession(file))
    /\ hist' = [hist EXCEPT ![p].file = file]
    /\ UNCHANGED <<shared, user, pass, code, tfaId, postFlow, reqSid>>
    /\ UNCHANGED cli

\* The caller takes the result; the call slot is free again.
Finish(p) ==
    /\ pc[p] = "done"
    /\ pc' = [pc EXCEPT ![p] = "idle"]
    /\ op' = [op EXCEPT ![p] = "none"]
    /\ user' = [user EXCEPT ![p] = Undef]
    /\ pass' = [pass EXCEPT ![p] = Undef]
    /\ code' = [code EXCEPT ![p] = Undef]
    /\ tfaId' = [tfaId EXCEPT ![p] = Undef]
    /\ ret' = [ret EXCEPT ![p] = NoRet]
    /\ reqSid' = [reqSid EXCEPT ![p] = 0]
    /\ hist' = [hist EXCEPT ![p] = NoHist]
    /\ recipient' = [recipient EXCEPT ![p] = Undef]
    /\ out' = [out EXCEPT ![p] = NoOut]
    /\ UNCHANGED <<shared, postFlow, wire, exit, trunc>>

\* The next CLI command: a new process, `new AuthManager()` with a new client.
NewProcess ==
    /\ \A p \in Calls : pc[p] = "idle" /\ postFlow[p] = "none"
    /\ ig # FreshState
    /\ ig' = FreshState
    /\ UNCHANGED <<file, issued, valid, locals>>
    /\ UNCHANGED cli

\* ------------------------------------------------------------- environment
\* The server ends a session on its own (password change, inactivity, ...).
ExpireSession(sid) ==
    /\ sid \in valid
    /\ valid' = valid \ {sid}
    /\ UNCHANGED <<ig, file, issued, locals>>
    /\ UNCHANGED cli

\* Session files the program did not write: text that is not JSON, an object
\* without cookies, an empty cookie list, session cookies without ds_user_id.
Garbage == [NoFile EXCEPT !.exists = TRUE, !.wellFormed = FALSE]

ForeignFiles ==
    {Garbage,
     [NoFile EXCEPT !.exists = TRUE, !.has = {"deviceId"}, !.deviceId = "device-alice"],
     [NoFile EXCEPT !.exists = TRUE, !.has = {"cookies", "deviceId"},
                    !.deviceId = "device-alice"],
     [NoFile EXCEPT !.exists = TRUE, !.has = {"cookies", "deviceId"},
                    !.deviceId = "device-alice",
                    !.cookies = <<[name |-> "sessionid", value |-> 1]>>]}

\* Between two commands something other than this program replaces the
\* session file.
ReplaceFile(f) ==
    /\ f \in ForeignFiles
    /\ \A p \in Calls : pc[p] = "idle"
    /\ file # f
    /\ file' = f
    /\ UNCHANGED <<ig, issued, valid, locals>>
    /\ UNCHANGED cli

\* ---------------------------------------------------------------- messaging
\* Send requests put on the wire in one run.
MaxSends == 2

\* showInbox prints the first ten threads of what it fetched.
DisplayMax == 10

\* Recipients a caller may name: an account, a name no account has, and the
\* user id of an account written out instead of its name.
UserIds == {"2"}
Recipients == {"bob", "nobody"} \cup UserIds

\* What the server may answer to a request for data: it serves it, asks for
\* a login, raises a checkpoint, limits the rate, or the request fails on the
\* way (network error, timeout, server error).
DataAnswers == {"ok", "login_required", "checkpoint", "rate_limited", "error"}

\* A feed on the server: pages of items, each page saying whether more follow.
Page(items, more) == [items |-> items, hasMore |-> more]

Feeds ==
    {<<Page(<<1, 2>>, TRUE), Page(<<3, 4>>, TRUE), Page(<<5>>, FALSE)>>,
     <<Page(<<>>, TRUE), Page(<<1>>, FALSE)>>,
     <<Page(<<>>, FALSE)>>,
     <<Page(<<11, 10, 9, 8, 7, 6, 5, 4, 3, 2, 1>>, FALSE)>>}

\* feed.items() of the library: one request, answered with the page at the
\* feed's cursor; a feed object just created stands at the first page.
items(feed) == feed[1].items

\* An item of a thread as the server sends it; item i of the feeds above.
ServerItem(i) ==
    [item_id |-> i, user_id |-> 1, text |-> IF i = 2 THEN "" ELSE "hello",
     item_type |-> IF i = 2 THEN "like" ELSE "text", timestamp |-> i]

\* getThread's mapping of an item to a Message.
Message(item) ==
    [itemId |-> item.item_id, userId |-> item.user_id,
     text |-> IF item.text # "" THEN item.text ELSE item.item_type,
     timestamp |-> item.timestamp, itemType |-> item.item_type]

\* The items of a thread page, for the item numbers of a feed page.
ThreadItems(ids) == [i \in 1..Len(ids) |-> ServerItem(ids[i])]

\* items.map(item => ({ itemId, userId, text, timestamp, itemType }))
Messages(its) == [i \in 1..Len(its) |-> Message(its[i])]

\* threads.slice(0, n)
Slice(s, n) == SubSeq(s, 1, IF Len(s) < n THEN Len(s) ELSE n)

List(s) == [kind |-> "list", items |-> s]

Printed(msgs, m) == \E i \in 1..Len(msgs) : msgs[i] = m

ConsoleLog(p, m) == [out EXCEPT ![p].msgs = Append(@, m)]

\* The client_context the library puts into a send request: a new token for
\* every request it builds.
MintContext == Len(wire) + 1

\* ensureLoggedIn() found no session: the method says so and returns its
\* empty value.
NotLoggedIn(p, method) ==
    /\ Return(p, CASE method = "showInbox" -> Void
                   [] method = "getThread" -> List(<<>>)
                   [] OTHER -> Bool(FALSE))
    /\ out' = ConsoleLog(p, "Not logged in")

\* The awaits of the inbox, thread, user-lookup and send requests.
MessagingRequests == {"inbox_items", "thread_items", "send_lookup", "send_req"}

\* The response to a request that carried an accepted session brings a new
\* csrftoken (Set-Cookie), which the client's cookie jar takes before the
\* awaiting method goes on.  Nothing in the methods that load a session
\* writes the jar back to the session file.
SetCookieResponse(p) ==
    /\ pc[p] \in {"load_user", "gcu_user", "ensure_user"} \cup MessagingRequests
    /\ reqSid[p] \in valid
    /\ GetCookie(ig.cookies, "csrftoken") # 2
    /\ ig' = [ig EXCEPT !.cookies = SetCookie(@, "csrftoken", 2)]
    /\ UNCHANGED <<file, issued, valid, locals>>
    /\ UNCHANGED cli

\* The request the method makes once ensureLoggedIn() returned true.
FirstRequest(method) ==
    CASE method = "showInbox" -> "inbox_items"
      [] method = "getThread" -> "thread_items"
      [] OTHER -> "send_lookup"

\* Variant of MessagingCall: without a session file the method goes on to its
\* request all the same.
MessagingCallWithoutSession(p, method, to) ==
    /\ pc[p] = "idle"
    /\ method \in {"showInbox", "getThread", "sendMessage"}
    /\ method = "sendMessage" => Len(wire) < MaxSends
    /\ op' = [op EXCEPT ![p] = method]
    /\ recipient' = [recipient EXCEPT ![p] = IF method = "sendMessage" THEN to ELSE Undef]
    /\ hist' = [hist EXCEPT ![p].file = file, ![p].wire0 = Len(wire)]
    /\ IF file.exists /\ JsonParses(file)
       THEN /\ ig' = deserialize(ig, JsonParse(file))
            /\ pc' = [pc EXCEPT ![p] = "ensure_user"]
            /\ reqSid' = [reqSid EXCEPT ![p] = GetCookie(ig'.cookies, "sessionid")]
            /\ UNCHANGED <<ret, out>>
       ELSE /\ pc' = [pc EXCEPT ![p] = FirstRequest(method)]
            /\ UNCHANGED <<ig, reqSid, ret, out>>
    /\ UNCHANGED <<file, issued, valid, user, pass, code, tfaId, postFlow, wire, exit, trunc>>

\* showInbox(), getThread(id) or sendMessage(to, text) on a MessagingClient up
\* to the first await: ensureLoggedIn() calls loadSession(), which without a
\* file (or with one JSON.parse rejects) returns false at once and otherwise
\* deserializes the file and requests account.currentUser().
MessagingCall(p, method, to) ==
    /\ pc[p] = "idle"
    /\ method \in {"showInbox", "getThread", "sendMessage"}
    /\ method = "sendMessage" => Len(wire) < MaxSends
    /\ op' = [op EXCEPT ![p] = method]
    /\ recipient' = [recipient EXCEPT ![p] = IF method = "sendMessage" THEN to ELSE Undef]
    /\ hist' = [hist EXCEPT ![p].file = file, ![p].wire0 = Len(wire)]
    /\ IF file.exists /\ JsonParses(file)
       THEN /\ ig' = deserialize(ig, JsonParse(file))
            /\ pc' = [pc EXCEPT ![p] = "ensure_user"]
            /\ reqSid' = [reqSid EXCEPT ![p] = GetCookie(ig'.cookies, "sessionid")]
            /\ UNCHANGED <<ret, out>>
       ELSE /\ NotLoggedIn(p, method)
            /\ UNCHANGED <<ig, reqSid>>
    /\ UNCHANGED <<file, issued, valid, user, pass, code, tfaId, postFlow, wire, exit, trunc>>

\* Variant of EnsureLoggedIn: a recipient given as a user id is sent to
\* without the lookup.
EnsureLoggedInSkipsLookup(p, a) ==
    /\ pc[p] = "ensure_user"
    /\ a \in {"ok", "login_required", "error"}
    /\ ServerMayServe(reqSid[p], a)
    /\ IF a = "ok" /\ op[p] = "sendMessage" /\ recipient[p] \in UserIds
       THEN /\ pc' = [pc EXCEPT ![p] = "send_req"]
            /\ wire' = Append(wire, [ctx |-> MintContext, to |-> 2])
            /\ hist' = [hist EXCEPT ![p].requests = Append(@, "send_req")]
            /\ UNCHANGED <<ret, out>>
       ELSE IF a = "ok"
       THEN /\ pc' = [pc EXCEPT ![p] = FirstRequest(op[p])]
            /\ hist' = [hist EXCEPT ![p].requests = Append(@, FirstRequest(op[p]))]
            /\ UNCHANGED <<ret, out, wire>>
       ELSE /\ NotLoggedIn(p, op[p])
            /\ UNCHANGED <<hist, wire>>
    /\ UNCHANGED <<shared, op, user, pass, code, tfaId, postFlow, reqSid, recipient, exit, trunc>>

\* loadSession's account.currentUser() settles inside ensureLoggedIn(): on
\* success the method goes on to its own request, on any failure it is
\* "not logged in".
EnsureLoggedIn(p, a) ==
    /\ pc[p] = "ensure_user"
    /\ a \in {"ok", "login_required", "error"}
    /\ ServerMayServe(reqSid[p], a)
    /\ IF a = "ok"
       THEN /\ pc' = [pc EXCEPT ![p] = FirstRequest(op[p])]
            /\ hist' = [hist EXCEPT ![p].requests = Append(@, FirstRequest(op[p]))]
            /\ UNCHANGED <<ret, out>>
       ELSE /\ NotLoggedIn(p, op[p])
            /\ UNCHANGED hist
    /\ UNCHANGED <<shared, op, user, pass, code, tfaId, postFlow, reqSid, recipient,
                   wire, exit, trunc>>

\* Math.min
Min(a, b) == IF a <= b THEN a ELSE b

\* Strings as sequences of UTF-16 units; the strings and widths truncate is
\* tried on.
MaxStr == 5
MaxWidth == 6
Chars == {"a", "."}
Strings == UNION {[1..n -> Chars] : n \in 0..MaxStr}

\* An index argument of String.prototype.substring, brought into 0..len.
Clamp(n, len) == IF n < 0 THEN 0 ELSE IF n > len THEN len ELSE n

\* str.substring(start, end): both indexes are clamped to the string and
\* swapped when start is the larger.
substring(str, start, end) ==
    LET x == Clamp(start, Len(str))
        y == Clamp(end, Len(str))
    IN SubSeq(str, Min(x, y) + 1, IF x <= y THEN y ELSE x)

\* truncate(str, maxLength)
truncate(str, maxLength) ==
    IF Len(str) <= maxLength THEN str
    ELSE substring(str, 0, maxLength - 3) \o <<".", ".", ".">>

\* A call of truncate returns.
TruncateCall(str, maxLength) ==
    /\ trunc' = [called |-> TRUE, str |-> str, maxLength |-> maxLength,
                 result |-> truncate(str, maxLength)]
    /\ UNCHANGED <<shared, locals, recipient, out, wire, exit>>

\* Variant of FeedItems: every thread the request brought is listed.
FeedItemsListsAll(p, a, f) ==
    /\ pc[p] \in {"inbox_items", "thread_items"}
    /\ a \in DataAnswers
    /\ f \in Feeds
    /\ ServerMayServe(reqSid[p], a)
    /\ IF pc[p] = "inbox_items"
       THEN /\ Return(p, Void)
            /\ out' = IF a # "ok" THEN ConsoleLog(p, "Failed to fetch inbox")
                      ELSE IF Len(items(f)) = 0 THEN ConsoleLog(p, "No conversations found.")
                      ELSE [out EXCEPT ![p].listed = items(f),
                                       ![p].shown = Min(Len(items(f)), DisplayMax),
                                       ![p].total = Len(items(f))]
       ELSE /\ Return(p, IF a = "ok" THEN List(Messages(ThreadItems(items(f))))
                         ELSE List(<<>>))
            /\ out' = IF a = "ok" THEN out ELSE ConsoleLog(p, "Failed to fetch thread")
    /\ hist' = [hist EXCEPT ![p].feed = IF a = "ok" THEN f ELSE <<>>]
    /\ UNCHANGED <<shared, op, user, pass, code, tfaId, postFlow, reqSid, recipient,
                   wire, exit, trunc>>

\* Variant of FeedItems: a request refused for want of a login is sent again.
FeedItemsRetries(p, a, f) ==
    /\ pc[p] \in {"inbox_items", "thread_items"}
    /\ a \in DataAnswers
    /\ f \in Feeds
    /\ ServerMayServe(reqSid[p], a)
    /\ IF a = "login_required" /\ Len(hist[p].requests) < 2
       THEN /\ hist' = [hist EXCEPT ![p].requests = Append(@, pc[p])]
            /\ UNCHANGED <<pc, ret, out>>
       ELSE /\ Return(p, IF pc[p] = "inbox_items" THEN Void
                         ELSE IF a = "ok" THEN List(Messages(ThreadItems(items(f))))
                         ELSE List(<<>>))
            /\ out' = IF pc[p] = "thread_items" /\ a = "ok" THEN out
                      ELSE IF a # "ok" THEN ConsoleLog(p, "Failed to fetch")
                      ELSE [out EXCEPT ![p].listed = Slice(items(f), DisplayMax),
                                       ![p].shown = Min(Len(items(f)), DisplayMax),
                                       ![p].total = Len(items(f))]
            /\ hist' = [hist EXCEPT ![p].feed = IF a = "ok" THEN f ELSE <<>>]
    /\ UNCHANGED <<shared, op, user, pass, code, tfaId, postFlow, reqSid, recipient,
                   wire, exit, trunc>>

\* inboxFeed.items() of showInbox, or thread.items() of getThread, settles.
\* It is the only request for the feed: what it brought is listed (at most
\* the first ten threads) or mapped to Messages and returned; an error is
\* reported on the console, and getThread then returns the empty list.
FeedItems(p, a, f) ==
    /\ pc[p] \in {"inbox_items", "thread_items"}
    /\ a \in DataAnswers
    /\ f \in Feeds
    /\ ServerMayServe(reqSid[p], a)
    /\ IF pc[p] = "inbox_items"
       THEN /\ Return(p, Void)
            /\ out' = IF a # "ok" THEN ConsoleLog(p, "Failed to fetch inbox")
                      ELSE IF Len(items(f)) = 0 THEN ConsoleLog(p, "No conversations found.")
                      ELSE [out EXCEPT ![p].listed = Slice(items(f), DisplayMax),
                                       ![p].shown = Min(Len(items(f)), DisplayMax),
                                       ![p].total = Len(items(f))]
       ELSE /\ Return(p, IF a = "ok" THEN List(Messages(ThreadItems(items(f))))
                         ELSE List(<<>>))
            /\ out' = IF a = "ok" THEN out ELSE ConsoleLog(p, "Failed to fetch thread")
    /\ hist' = [hist EXCEPT ![p].feed = IF a = "ok" THEN f ELSE <<>>]
    /\ UNCHANGED <<shared, op, user, pass, code, tfaId, postFlow, reqSid, recipient,
                   wire, exit, trunc>>

\* getUserId: user.searchExact(username) settles.  Whatever goes wrong gives
\* null, which sendMessage reports as "user not found"; with a user id the
\* send request is built and put on the wire.
SearchExact(p, a) ==
    /\ pc[p] = "send_lookup"
    /\ a \in DataAnswers \cup {"not_found"}
    /\ ServerMayServe(reqSid[p], a)
    /\ a = "ok" => recipient[p] \in Usernames
    /\ a = "not_found" => recipient[p] \notin Usernames
    /\ IF a = "ok"
       THEN /\ pc' = [pc EXCEPT ![p] = "send_req"]
            /\ wire' = Append(wire, [ctx |-> MintContext, to |-> Pk(recipient[p])])
            /\ hist' = [hist EXCEPT ![p].requests = Append(@, "send_req")]
            /\ UNCHANGED <<ret, out>>
       ELSE /\ Return(p, Bool(FALSE))
            /\ out' = ConsoleLog(p, "User not found")
            /\ UNCHANGED <<wire, hist>>
    /\ UNCHANGED <<shared, op, user, pass, code, tfaId, postFlow, reqSid, recipient, exit, trunc>>

\* How direct.send may settle: as any request for data does, or rejected
\* with a value that has no message string (the catch clause takes `any`).
SendAnswers == DataAnswers \cup {"no_message"}

\* Variant of DirectSend: after a network error the send is made again, the
\* library building a new request for it.
DirectSendRetries(p, a) ==
    /\ pc[p] = "send_req"
    /\ a \in SendAnswers
    /\ ServerMayServe(reqSid[p], a)
    /\ IF a = "error" /\ Len(wire) < MaxSends
       THEN /\ wire' = Append(wire, [ctx |-> MintContext, to |-> Pk(recipient[p])])
            /\ hist' = [hist EXCEPT ![p].requests = Append(@, "send_req")]
            /\ UNCHANGED <<pc, ret, out>>
       ELSE /\ Return(p, Bool(a = "ok"))
            /\ out' = ConsoleLog(p, IF a = "ok" THEN "Message sent" ELSE "Failed to send message")
            /\ UNCHANGED <<wire, hist>>
    /\ UNCHANGED <<shared, op, user, pass, code, tfaId, postFlow, reqSid, recipient, exit, trunc>>

\* direct.send({userIds, text}) settles: true on success; an error is
\* reported on the console (a checkpoint by its own message) and gives false.
\* The catch block calls error.message.includes(...): with a rejection value
\* that has no message string that call throws, out of sendMessage.
DirectSend(p, a) ==
    /\ pc[p] = "send_req"
    /\ a \in SendAnswers
    /\ ServerMayServe(reqSid[p], a)
    /\ Return(p, IF a = "no_message" THEN Thrown ELSE Bool(a = "ok"))
    /\ out' = CASE a = "ok" -> ConsoleLog(p, "Message sent")
                [] a = "no_message" -> ConsoleLog(p, "Failed to send message")
                [] OTHER -> [out EXCEPT ![p].msgs =
                               Append(Append(@, "Failed to send message"),
                                      IF a = "checkpoint"
                                      THEN "Account flagged for verification"
                                      ELSE "Error")]
    /\ UNCHANGED <<shared, op, user, pass, code, tfaId, postFlow, reqSid, recipient,
                   wire, hist, exit, trunc>>

\* -------------------------------------------------------------------- CLI
\* The commands of the CLI, by the method each one awaits.
Commands == {"login", "logout", "getCurrentUser", "showInbox", "sendMessage"}

\* main(): an error thrown out of the command is printed and the process
\* exits with 1; otherwise main returns and the process exits with 0.
ExitCode(r) == IF r = Thrown THEN 1 ELSE 0

\* What the command's action prints once its method returned.
CommandPrints(cmd, r) ==
    CASE cmd = "logout" -> <<"Logged out successfully">>
      [] cmd = "getCurrentUser" /\ r = Null -> <<"Not logged in">>
      [] cmd = "getCurrentUser" -> <<"Logged in as">>
      [] OTHER -> <<>>

\* The command's method has returned or thrown and nothing is left to run:
\* the process ends.  The value the method returned is not looked at (whoami
\* apart, which prints it); only an exception makes main exit with 1.
Exit(p) ==
    /\ pc[p] = "done"
    /\ op[p] \in Commands
    /\ postFlow[p] = "none"
    /\ exit' = [cmd |-> op[p], ret |-> ret[p], code |-> ExitCode(ret[p]),
                msgs |-> IF ret[p] = Thrown THEN Append(out[p].msgs, "Error")
                         ELSE out[p].msgs \o CommandPrints(op[p], ret[p])]
    /\ pc' = [pc EXCEPT ![p] = "idle"]
    /\ op' = [op EXCEPT ![p] = "none"]
    /\ user' = [user EXCEPT ![p] = Undef]
    /\ pass' = [pass EXCEPT ![p] = Undef]
    /\ code' = [code EXCEPT ![p] = Undef]
    /\ tfaId' = [tfaId EXCEPT ![p] = Undef]
    /\ ret' = [ret EXCEPT ![p] = NoRet]
    /\ reqSid' = [reqSid EXCEPT ![p] = 0]
    /\ hist' = [hist EXCEPT ![p] = NoHist]
    /\ recipient' = [recipient EXCEPT ![p] = Undef]
    /\ out' = [out EXCEPT ![p] = NoOut]
    /\ UNCHANGED <<shared, postFlow, wire, trunc>>

\* ---------------------------------------------------------- specifications
Step(p) ==
    \/ \E u \in Usernames \cup {Undef} : LoginCall(p, u)
    \/ \E n \in Usernames \cup {""}, w \in Passwords : LoginPrompted(p, n, w)
    \/ \E a \in FlowAnswers : PreLoginFlow(p, a)
    \/ \E a \in LoginAnswers : AccountLogin(p, a)
    \/ \E a \in {"ok", "error"} : PostLoginFlow(p, a)
    \/ \E c \in Codes : TwoFactorPrompted(p, c)
    \/ \E a \in {"ok", "fail"} : TwoFactorLogin(p, a)
    \/ \E a \in {"ok", "error"} : ChallengeAuto(p, a)
    \/ \E c \in Codes : ChallengePrompted(p, c)
    \/ \E a \in CodeAnswers : SendSecurityCode(p, a)
    \/ \E m \in {"loadSession", "getCurrentUser"} : SessionCall(p, m)
    \/ \E a \in {"ok", "login_required", "error"} : LoadCurrentUser(p, a)
    \/ \E a \in {"ok", "login_required", "error"} : GetCurrentUser(p, a)
    \/ LogoutCall(p)
    \/ \E a \in {"ok", "login_required", "error"} : AccountLogout(p, a)
    \/ HasValidSessionCall(p)
    \/ Finish(p)

Environment ==
    \/ NewProcess
    \/ \E sid \in 1..MaxSessions : ExpireSession(sid)
    \/ \E f \in ForeignFiles : ReplaceFile(f)

\* One command at a time, as the CLI runs them.
Next == Step(1) \/ Environment

Spec == Init /\ [][Next]_vars

\* Two calls sharing one AuthManager, interleaved at their awaits, with no
\* outside interference: the first logs in as alice, the second as bob
\* (password and codes typed right, the server still free to refuse), and
\* the second may log out.
SharedStep(p) ==
    \/ LoginCall(p, IF p = 1 THEN "alice" ELSE "bob")
    \/ LoginPrompted(p, "", "right")
    \/ \E a \in FlowAnswers : PreLoginFlow(p, a)
    \/ \E a \in LoginAnswers : AccountLogin(p, a)
    \/ \E a \in {"ok", "error"} : PostLoginFlow(p, a)
    \/ TwoFactorPrompted(p, "good")
    \/ \E a \in {"ok", "fail"} : TwoFactorLogin(p, a)
    \/ \E a \in {"ok", "error"} : ChallengeAuto(p, a)
    \/ ChallengePrompted(p, "good")
    \/ \E a \in CodeAnswers : SendSecurityCode(p, a)
    \/ (p = 2 /\ LogoutCall(p))
    \/ \E a \in {"ok", "login_required", "error"} : AccountLogout(p, a)
    \/ Finish(p)

NextShared == \E p \in Calls : SharedStep(p)

SpecShared == Init /\ [][NextShared]_vars

\* One login after another by call 1 with nothing else running, every prompt
\* and every request eventually answered.
LoginStep(p) ==
    \/ \E u \in Usernames \cup {Undef} : LoginCall(p, u)
    \/ \E n \in Usernames \cup {""}, w \in Passwords : LoginPrompted(p, n, w)
    \/ \E a \in FlowAnswers : PreLoginFlow(p, a)
    \/ \E a \in LoginAnswers : AccountLogin(p, a)
    \/ \E a \in {"ok", "error"} : PostLoginFlow(p, a)
    \/ \E c \in Codes : TwoFactorPrompted(p, c)
    \/ \E a \in {"ok", "fail"} : TwoFactorLogin(p, a)
    \/ \E a \in {"ok", "error"} : ChallengeAuto(p, a)
    \/ \E c \in Codes : ChallengePrompted(p, c)
    \/ \E a \in CodeAnswers : SendSecurityCode(p, a)

\* The user or the server answers what login is waiting for.
Answered(p) == pc[p] # "idle" /\ LoginStep(p)

NextLogin == LoginStep(1) \/ Finish(1)

SpecLogin == Init /\ [][NextLogin]_vars /\ WF_vars(Answered(1))

\* The commands of the CLI run one after another, each in a process of its
\* own, against a server that may end sessions; getThread and loadSession are
\* called the same way by a program using MessagingClient or AuthManager.
CliStep(p) ==
    \/ \E u \in {"alice", Undef} : LoginCall(p, u)
    \/ \E w \in Passwords : LoginPrompted(p, "alice", w)
    \/ \E a \in FlowAnswers : PreLoginFlow(p, a)
    \/ \E a \in LoginAnswers : AccountLogin(p, a)
    \/ \E a \in {"ok", "error"} : PostLoginFlow(p, a)
    \/ \E c \in Codes : TwoFactorPrompted(p, c)
    \/ \E a \in {"ok", "fail"} : TwoFactorLogin(p, a)
    \/ \E a \in {"ok", "error"} : ChallengeAuto(p, a)
    \/ \E c \in Codes : ChallengePrompted(p, c)
    \/ \E a \in CodeAnswers : SendSecurityCode(p, a)
    \/ \E m \in {"loadSession", "getCurrentUser"} : SessionCall(p, m)
    \/ SetCookieResponse(p)
    \/ \E a \in {"ok", "login_required", "error"} : LoadCurrentUser(p, a)
    \/ \E a \in {"ok", "login_required", "error"} : GetCurrentUser(p, a)
    \/ LogoutCall(p)
    \/ \E a \in {"ok", "login_required", "error"} : AccountLogout(p, a)
    \/ \E m \in {"showInbox", "getThread", "sendMessage"}, to \in Recipients :
          (ig = FreshState /\ MessagingCall(p, m, to))
    \/ \E a \in {"ok", "login_required", "error"} : EnsureLoggedIn(p, a)
    \/ \E a \in DataAnswers, f \in Feeds : FeedItems(p, a, f)
    \/ \E a \in DataAnswers \cup {"not_found"} : SearchExact(p, a)
    \/ \E a \in SendAnswers : DirectSend(p, a)
    \/ Exit(p)
    \/ (op[p] \in {"getThread", "loadSession"} /\ Finish(p))

NextCli ==
    \/ CliStep(1)
    \/ NewProcess
    \/ \E sid \in 1..MaxSessions : ExpireSession(sid)

SpecCli == Init /\ [][NextCli]_vars

\* truncate called on every string and every width of the bounds.
NextTruncate == \E str \in Strings, maxLength \in 0..MaxWidth : TruncateCall(str, maxLength)

SpecTruncate == Init /\ [][NextTruncate]_vars

\* ------------------------------------------------------------------ claims
\* The state of the authentication state machine a login call is in.
AuthState(p) ==
    CASE op[p] # "login" -> "None"
      [] pc[p] \in {"login_prompt", "login_pre", "login_req"} -> "Unauthenticated"
      [] pc[p] \in {"tfa_prompt", "tfa_req"} -> "AwaitingTwoFactor"
      [] pc[p] \in {"chal_auto", "chal_prompt", "chal_send"} -> "AwaitingChallenge"
      [] pc[p] = "done" /\ ret[p].kind = "user" -> "Authenticated"
      [] pc[p] = "done" /\ ret[p] = Null -> "Failed"
      [] OTHER -> "Other"

\* The session file is written: a step of a login that the server accepted.
Saved ==
    \E q \in Calls :
        \/ AccountLogin(q, "ok")
        \/ TwoFactorLogin(q, "ok")
        \/ SendSecurityCode(q, "ok")
        \/ SendSecurityCode(q, "ok_malformed")

\* A request of a login or of a session load fails.
FailedAnswer(p) ==
    \/ \E a \in FlowAnswers \ {"ok"} : PreLoginFlow(p, a)
    \/ \E a \in LoginAnswers \ {"ok"} : AccountLogin(p, a)
    \/ TwoFactorLogin(p, "fail")
    \/ ChallengeAuto(p, "error")
    \/ SendSecurityCode(p, "fail")
    \/ \E a \in {"login_required", "error"} : LoadCurrentUser(p, a)
    \/ \E a \in {"login_required", "error"} : GetCurrentUser(p, a)

\* C1: every answer to the login request takes the login to exactly the state
\* the answer calls for: Authenticated when accepted, AwaitingTwoFactor when a
\* second factor is required, AwaitingChallenge on a checkpoint, Failed
\* (null returned) on a bad password or any other error, a malformed
\* two-factor answer included; nothing else is reached.
C1_LoginOutcomes ==
    [][\A p \in Calls, a \in LoginAnswers :
          AccountLogin(p, a) =>
             AuthState(p)' \in
                 CASE a = "ok" -> {"Authenticated"}
                   [] a = "two_factor" -> {"AwaitingTwoFactor"}
                   [] a = "two_factor_malformed" -> {"AwaitingTwoFactor", "Failed"}
                   [] a = "checkpoint" -> {"AwaitingChallenge"}
                   [] OTHER -> {"Failed"}]_vars

\* C2 as stated: a wrong two-factor code moves the login to Failed exactly
\* when it is the third one refused; fewer keep it in AwaitingTwoFactor.
C2_ThirdWrongCodeFails ==
    [][\A p \in Calls :
          (TwoFactorLogin(p, "fail") /\ code[p] = "bad") =>
             /\ hist'[p].refused < 3 => AuthState(p)' = "AwaitingTwoFactor"
             /\ hist'[p].refused >= 3 => AuthState(p)' = "Failed"]_vars

\* C2 as amended: the first wrong two-factor code ends the login: it is the
\* only code the call submits, login returns null (Failed) and the session
\* file is left as it was.
C2_FirstWrongCodeFails ==
    [][\A p \in Calls :
          (TwoFactorLogin(p, "fail") /\ code[p] = "bad") =>
             /\ AuthState(p)' = "Failed"
             /\ hist'[p].refused = 1
             /\ file' = file]_vars

C2_Witness ==
    \E p \in Calls :
        /\ op[p] = "login" /\ pc[p] = "done" /\ ret[p] = Null
        /\ code[p] = "bad" /\ hist[p].refused = 1

\* C3: logout leaves no persisted session, when it starts its request and
\* when it returns; while there is none, loadSession gives false and
\* getCurrentUser null; and a session file appears again only by a login the
\* server accepted (or by another program writing the file).
C3_LogoutClears ==
    [][\A p \in Calls :
          /\ LogoutCall(p) => ~file'.exists
          /\ \A a \in {"ok", "login_required", "error"} :
                 AccountLogout(p, a) => ~file'.exists /\ pc'[p] = "done"
          /\ \A m \in {"loadSession", "getCurrentUser"} :
                 (SessionCall(p, m) /\ ~file.exists) =>
                    /\ pc'[p] = "done"
                    /\ ret'[p] = IF m = "loadSession" THEN Bool(FALSE) ELSE Null
          /\ (~file.exists /\ file'.exists) =>
                 Saved \/ \E f \in ForeignFiles : ReplaceFile(f)]_vars

C3_Witness ==
    \E p \in Calls :
        /\ op[p] = "logout" /\ pc[p] = "done"
        /\ hist[p].file.exists /\ HasCookie(hist[p].file.cookies, "ds_user_id")
        /\ ~file.exists

\* A login that has been called and has not yet returned.
LoginPending(p) == op[p] = "login" /\ pc[p] \notin {"idle", "done"}

\* C4: no two logins on one AuthManager are pending at the same time.
C4_NoConcurrentLogin ==
    \A p, q \in Calls : p # q => ~(LoginPending(p) /\ LoginPending(q))

\* C5: with every prompt and request eventually answered, a login that was
\* started eventually ends (it returns or throws); it does not wait forever.
C5_LoginTerminates == (op[1] = "login") ~> (pc[1] = "done")

C5_Witness ==
    /\ op[1] = "login" /\ pc[1] = "done"
    /\ code[1] # Undef

\* C6 as stated, for logout: a logout whose request fails leaves the session
\* file as it was when logout started.
C6_FailedLogoutKeepsFile ==
    [][\A p \in Calls, a \in {"login_required", "error"} :
          (AccountLogout(p, a) /\ HasCookie(hist[p].file.cookies, "ds_user_id")) =>
             file' = hist[p].file]_vars

\* C6 as amended: a login, two-factor, challenge or session-load request
\* that fails leaves the session file exactly as it was when the call
\* started; logout has removed the file before its request is sent, so
\* the file is gone whatever the request's result.
C6_FailedRequestKeepsFile ==
    [][\A p \in Calls :
          /\ FailedAnswer(p) => file' = hist[p].file
          /\ \A a \in {"ok", "login_required", "error"} :
                 AccountLogout(p, a) => ~file'.exists]_vars

C6_Witness ==
    \E p \in Calls :
        /\ op[p] = "login" /\ pc[p] = "done" /\ ret[p] = Null
        /\ file.exists /\ file = hist[p].file
        /\ HasCookie(file.cookies, "sessionid")
        /\ ig.deviceId # file.deviceId

C8_NoConstantsPersisted ==
    file.exists => (file.has \subseteq {"cookies", "deviceId"} /\ file.constants = Undef)

C8_Witness ==
    /\ file.exists /\ file.has = {"cookies", "deviceId"}
    /\ HasCookie(file.cookies, "ds_user_id")
    /\ ig.constants = ConstantsTable

\* C9 as stated: a session file that cannot be parsed is not reported the
\* way a missing or expired session is (false).
C9_CorruptIsDistinct ==
    [][\A p \in Calls :
          (SessionCall(p, "loadSession") /\ file.exists /\ ~JsonParses(file)) =>
             ret'[p] # Bool(FALSE)]_vars

\* C9 as amended: a session file that is not JSON never restores a session:
\* loadSession returns false and getCurrentUser null, exactly as for a
\* missing file, with the client state and the file untouched.
C9_CorruptGivesFalse ==
    [][\A p \in Calls, m \in {"loadSession", "getCurrentUser"} :
          (SessionCall(p, m) /\ (~file.exists \/ ~JsonParses(file))) =>
             /\ pc'[p] = "done"
             /\ ret'[p] = IF m = "loadSession" THEN Bool(FALSE) ELSE Null
             /\ ig' = ig
             /\ file' = file]_vars

C9_Witness ==
    \E p \in Calls :
        /\ op[p] = "loadSession" /\ pc[p] = "done" /\ ret[p] = Bool(FALSE)
        /\ hist[p].file = Garbage

\* C10 as stated: hasValidSession is true exactly when the session file
\* holds both a credential (the session cookie) and a user id.
C10_CredentialAndUserId ==
    \A p \in Calls :
        (op[p] = "hasValidSession" /\ pc[p] = "done") =>
           (ret[p] = Bool(TRUE) <=>
               /\ hist[p].file.exists /\ JsonParses(hist[p].file)
               /\ HasCookie(hist[p].file.cookies, "sessionid")
               /\ HasCookie(hist[p].file.cookies, "ds_user_id"))

\* C10 as amended: hasValidSession is true exactly when the session file
\* exists, parses and holds a cookie list that is not empty, whatever the
\* cookies are.
C10_NonEmptyCookies ==
    \A p \in Calls :
        (op[p] = "hasValidSession" /\ pc[p] = "done") =>
           (ret[p] = Bool(TRUE) <=>
               /\ hist[p].file.exists /\ JsonParses(hist[p].file)
               /\ "cookies" \in hist[p].file.has
               /\ Len(hist[p].file.cookies) > 0)

C10_Witness ==
    \E p \in Calls :
        /\ op[p] = "hasValidSession" /\ pc[p] = "done" /\ ret[p] = Bool(TRUE)
        /\ ~HasCookie(hist[p].file.cookies, "ds_user_id")

C12_EmptySeedRejected ==
    \A p \in Calls :
        (op[p] = "login" /\ pc[p] \in {"login_pre", "login_req"}) =>
           user[p] \notin {"", Undef}

\* C17: a two-factor answer without two_factor_info, or a challenge answer
\* without logged_in_user, ends login by returning null, with nothing thrown
\* and no session saved.
C17_MalformedIsFailed ==
    [][\A p \in Calls :
          (AccountLogin(p, "two_factor_malformed") \/ SendSecurityCode(p, "ok_malformed")) =>
             /\ pc'[p] = "done"
             /\ ret'[p] = Null
             /\ file' = file]_vars

\* What a feed iterator pulling page after page while hasMore is true would
\* yield from page i on.
RECURSIVE Pull(_, _)
Pull(f, i) ==
    IF i > Len(f) THEN <<>>
    ELSE IF f[i].hasMore THEN f[i].items \o Pull(f, i + 1)
    ELSE f[i].items

\* C13: listing a feed yields every item of every page, in the server's
\* order: getThread returns them all and showInbox lists them all.
C13_EveryItemOfEveryPage ==
    [][\A p \in Calls, f \in Feeds :
          FeedItems(p, "ok", f) =>
             IF pc[p] = "thread_items"
             THEN ret'[p] = List(Messages(ThreadItems(Pull(f, 1))))
             ELSE /\ out'[p].total = Len(Pull(f, 1))
                  /\ out'[p].listed = Slice(Pull(f, 1), DisplayMax)]_vars

\* C14: a first page without items but with hasMore = true does not end the
\* listing and is not reported as an empty feed: the items of the pages
\* after it are listed.
C14_EmptyPageIsTransient ==
    [][\A p \in Calls, f \in Feeds :
          (/\ FeedItems(p, "ok", f)
           /\ pc[p] = "inbox_items"
           /\ f[1].items = <<>> /\ f[1].hasMore) =>
             /\ ~Printed(out'[p].msgs, "No conversations found.")
             /\ out'[p].listed = Pull(f, 2)]_vars

\* The client contexts of the send requests a sendMessage call has put on
\* the wire, and those of the requests sent before the call started.
OwnContexts(p) == {wire[i].ctx : i \in (hist[p].wire0 + 1)..Len(wire)}
EarlierContexts(p) == {wire[i].ctx : i \in 1..hist[p].wire0}

C16_ErrorsReachCaller ==
    [][\A p \in Calls, a \in DataAnswers \ {"ok"} :
          /\ SearchExact(p, a) => ~Printed(out'[p].msgs, "User not found")
          /\ \A f \in Feeds :
                (FeedItems(p, a, f) /\ pc[p] = "thread_items") => ret'[p] # List(<<>>)
          /\ DirectSend(p, a) => ret'[p] # Bool(FALSE)]_vars

\* C18 as stated: after a checkpoint answer no challenge request is issued
\* without a step of the caller.
C18_NoChallengeRequestUnasked ==
    [][\A p \in Calls :
          (AccountLogin(p, "checkpoint") \/ PreLoginFlow(p, "checkpoint")) =>
             pc'[p] \notin {"chal_auto", "chal_send"}]_vars

\* C18 as amended: login answers a checkpoint by requesting the challenge
\* code at once (challenge.auto); a security code is submitted only when the
\* user has typed it at the prompt, and it is the code typed; a checkpoint
\* answer to a request of showInbox, getThread or sendMessage ends the call
\* with no further request.
C18_CodeOnlyFromPrompt ==
    [][\A p \in Calls :
          /\ (AccountLogin(p, "checkpoint") \/ PreLoginFlow(p, "checkpoint")) =>
                pc'[p] = "chal_auto"
          /\ (pc'[p] = "chal_send" /\ pc[p] # "chal_send") =>
                \E c \in Codes : ChallengePrompted(p, c) /\ code'[p] = c
          /\ ((\E f \in Feeds : FeedItems(p, "checkpoint", f))
                 \/ SearchExact(p, "checkpoint") \/ DirectSend(p, "checkpoint")) =>
                pc'[p] = "done" /\ wire' = wire]_vars

\* A login that went through the challenge and was accepted.
C18_Witness ==
    \E p \in Calls :
        /\ op[p] = "login" /\ pc[p] = "done" /\ code[p] = "good"
        /\ user[p] \in Usernames /\ ret[p] = RawUser(ServerUser(user[p]))

\* C19: showInbox, getThread and sendMessage issue each of their requests at
\* most once: an answer of login-required, checkpoint or rate limit ends
\* the call without another request, and so does every other failure.
C19_NoAutomaticRetry ==
    [][\A p \in Calls :
          /\ \A a \in DataAnswers \ {"ok"} :
                ((\E f \in Feeds : FeedItems(p, a, f))
                    \/ SearchExact(p, a) \/ DirectSend(p, a)) =>
                   /\ pc'[p] = "done"
                   /\ hist'[p].requests = hist[p].requests
                   /\ wire' = wire
          /\ \A a \in {"login_required", "error"} :
                EnsureLoggedIn(p, a) =>
                   pc'[p] = "done" /\ hist'[p].requests = <<>>
          /\ Len(hist'[p].requests) <= 2]_vars

\* An inbox fetch refused because the session is no longer accepted.
C19_Witness ==
    \E p \in Calls :
        /\ op[p] = "showInbox" /\ pc[p] = "done"
        /\ reqSid[p] \notin valid
        /\ hist[p].requests = <<"inbox_items">>
        /\ Printed(out[p].msgs, "Failed to fetch inbox")

\* C20: a command that failed does not exit with 0, and a command that exits
\* with another code has printed a message: a login that did not return a
\* user, a send that did not return true, an inbox fetch that failed.
C20_ExitCodeTellsSuccess ==
    /\ (exit.cmd = "login" /\ exit.ret.kind # "user") => exit.code # 0
    /\ (exit.cmd = "sendMessage" /\ exit.ret # Bool(TRUE)) => exit.code # 0
    /\ (exit.cmd = "showInbox" /\ Printed(exit.msgs, "Failed to fetch inbox")) =>
          exit.code # 0
    /\ exit.code # 0 => Len(exit.msgs) > 0

\* The strings a session file holds.
FileStrings(f) == {f.constants, f.deviceId} \cup {f.cookies[i].name : i \in 1..Len(f.cookies)}

C22_SessionOfOneLogin ==
    (file.exists /\ HasCookie(file.cookies, "ds_user_id")) =>
       /\ GetCookie(file.cookies, "sessionid") \in 1..Len(issued)
       /\ GetCookie(file.cookies, "ds_user_id") =
             Pk(issued[GetCookie(file.cookies, "sessionid")])
       /\ file.deviceId = generateDevice(issued[GetCookie(file.cookies, "sessionid")])

\* C23 as stated: a recipient given as a user id is sent to without a
\* lookup request.
C23_UserIdSkipsLookup ==
    \A p \in Calls :
        (op[p] = "sendMessage" /\ recipient[p] \in UserIds) => pc[p] # "send_lookup"

\* C23 as amended: sendMessage takes the recipient as a username and looks
\* it up in every call: a send request goes on the wire only in the step in
\* which the lookup of the recipient succeeded, addressed to the pk the lookup
\* gave, so a recipient that is no account's username (a user id written
\* out included) is looked up and gets no send request.
C23_LookupBeforeEverySend ==
    [][\A p \in Calls :
          /\ (pc'[p] = "send_req" /\ pc[p] # "send_req") =>
                /\ SearchExact(p, "ok")
                /\ recipient[p] \in Usernames
                /\ hist'[p].requests = <<"send_lookup", "send_req">>
                /\ wire' = Append(wire, [ctx |-> MintContext, to |-> Pk(recipient[p])])
          /\ (op[p] = "sendMessage" /\ wire' # wire) => pc'[p] = "send_req"
          /\ (op[p] = "sendMessage" /\ recipient[p] \notin Usernames) => wire' = wire]_vars

\* A send to a user id written out: looked up, not found, nothing sent.
C23_Witness ==
    \E p \in Calls :
        /\ op[p] = "sendMessage" /\ pc[p] = "done" /\ ret[p] = Bool(FALSE)
        /\ recipient[p] \in UserIds
        /\ hist[p].requests = <<"send_lookup">>
        /\ Printed(out[p].msgs, "User not found")
        /\ Len(wire) = hist[p].wire0

\* C24: when a session file existed as logout began, the logout request is
\* sent with that session's id: the session was restored before
\* account.logout() was called.
C24_LogoutOfStoredSession ==
    \A p \in Calls :
        (/\ op[p] = "logout" /\ pc[p] = "logout_req"
         /\ hist[p].file.exists /\ JsonParses(hist[p].file)
         /\ HasCookie(hist[p].file.cookies, "sessionid")) =>
           reqSid[p] = GetCookie(hist[p].file.cookies, "sessionid")

C26_LoadSessionVerdict ==
    [][\A p \in Calls :
          /\ SessionCall(p, "loadSession") =>
                IF file.exists /\ JsonParses(file)
                THEN pc'[p] = "load_user" /\ ig' = deserialize(ig, JsonParse(file))
                ELSE pc'[p] = "done" /\ ret'[p] = Bool(FALSE)
          /\ \A a \in {"ok", "login_required", "error"} :
                (LoadCurrentUser(p, a) /\ op[p] = "loadSession") =>
                   /\ pc'[p] = "done"
                   /\ ret'[p] = Bool(a = "ok")
                   /\ a = "ok" =>
                         /\ reqSid[p] \in valid
                         /\ hist[p].file.exists /\ JsonParses(hist[p].file)
                         /\ reqSid[p] = GetCookie(ig.cookies, "sessionid")
          /\ op'[p] = "loadSession" => ret'[p] # Thrown]_vars

\* A stored session the server confirmed.
C26_Witness ==
    \E p \in Calls :
        /\ op[p] = "loadSession" /\ pc[p] = "done" /\ ret[p] = Bool(TRUE)
        /\ reqSid[p] \in valid
        /\ hist[p].file = file /\ ig.cookies = file.cookies

\* C27: showInbox, getThread and sendMessage come to a request of their own
\* only in the step in which the server confirmed the loaded session; a call
\* that ends before that returns nothing, the empty list or false, having
\* issued no request of its own.
C27_RequestsNeedSession ==
    [][\A p \in Calls :
          /\ (pc'[p] \in MessagingRequests /\ pc[p] \notin MessagingRequests) =>
                /\ EnsureLoggedIn(p, "ok")
                /\ reqSid[p] \in valid
          /\ (/\ op'[p] \in {"showInbox", "getThread", "sendMessage"}
              /\ pc[p] \in {"idle", "ensure_user"}
              /\ pc'[p] = "done") =>
                /\ ret'[p] = CASE op'[p] = "showInbox" -> Void
                               [] op'[p] = "getThread" -> List(<<>>)
                               [] OTHER -> Bool(FALSE)
                /\ hist'[p].requests = <<>>
                /\ wire' = wire]_vars

\* getThread with a session file the server no longer accepts.
C27_Witness ==
    \E p \in Calls :
        /\ op[p] = "getThread" /\ pc[p] = "done" /\ ret[p] = List(<<>>)
        /\ hist[p].file.exists /\ reqSid[p] \notin valid
        /\ hist[p].requests = <<>>
        /\ out[p].msgs = <<"Not logged in">>

\* The methods that load the stored session without logging in.
SessionReaders == {"loadSession", "getCurrentUser", "showInbox", "getThread", "sendMessage"}

\* C28: the session file is written only in a step of a login the server
\* accepted and removed only by logout; no step of loadSession,
\* getCurrentUser, showInbox, getThread or sendMessage changes it, so a cookie
\* the server set during such a call is in the client's jar and not in the
\* file.
C28_FileOnlyByLoginAndLogout ==
    [][/\ (file'.exists /\ file' # file) => Saved
       /\ (file.exists /\ ~file'.exists) => \E q \in Calls : LogoutCall(q)
       /\ \A p \in Calls :
             (op[p] \in SessionReaders \/ op'[p] \in SessionReaders) => file' = file]_vars

\* getCurrentUser returned the user while the server set a new csrftoken:
\* the jar has it, the file does not.
C28_Witness ==
    \E p \in Calls :
        /\ op[p] = "getCurrentUser" /\ pc[p] = "done" /\ ret[p].kind = "user"
        /\ GetCookie(ig.cookies, "csrftoken") = 2
        /\ file.exists /\ GetCookie(file.cookies, "csrftoken") = 1
        /\ file = hist[p].file

\* C29: the login request is made only once the pre-login flow succeeded; the
\* post-login flow is started only in the step in which the login request
\* succeeded, and the session file written in that step is the serialized
\* state of that moment; when the post-login flow settles, with or without
\* an error, the value login returns and the session file stay as they were.
C29_LoginStepsInOrder ==
    [][\A p \in Calls :
          /\ (pc'[p] = "login_req" /\ pc[p] # "login_req") => PreLoginFlow(p, "ok")
          /\ (postFlow'[p] = "pending" /\ postFlow[p] # "pending") =>
                /\ AccountLogin(p, "ok")
                /\ file' = saveSession(ig')
                /\ ret'[p] = UserInfo(ServerUser(user[p]))
          /\ (postFlow[p] = "pending" /\ postFlow'[p] = "none") =>
                /\ \E a \in {"ok", "error"} : PostLoginFlow(p, a)
                /\ file' = file
                /\ ret'[p] = ret[p]]_vars

\* A login without codes has returned its user and the post-login flow has
\* settled, the saved session being that of the login.
C29_Witness ==
    \E p \in Calls :
        /\ op[p] = "login" /\ pc[p] = "done" /\ ret[p].kind = "user"
        /\ code[p] = Undef /\ postFlow[p] = "none"
        /\ file = saveSession(ig)
        /\ GetCookie(file.cookies, "sessionid") \in valid

\* C30 (as stated, for the two-factor code): the two-factor request in flight
\* carries the identifier that the two-factor-required error carried.
C30_CodeWithIdentifierOfError ==
    \A p \in Calls :
        pc[p] = "tfa_req" =>
            tfaId[p] = TwoFactorInfo(user[p]).two_factor_identifier

\* The awaits at which a request of the call is in flight.
RequestsInFlight ==
    {"login_pre", "login_req", "tfa_req", "chal_auto", "chal_send", "load_user",
     "gcu_user", "ensure_user", "logout_req"} \cup MessagingRequests

\* C31 (as stated): a request of a login carries the device derived from the
\* login's username, and a request of any other command, begun with the
\* session file of a login in place, carries the device that file recorded.
C31_DeviceOfTheProfile ==
    \A p \in Calls :
        pc[p] \in RequestsInFlight =>
            IF op[p] = "login"
            THEN ig.deviceId = generateDevice(user[p])
            ELSE (/\ hist[p].file.exists /\ JsonParses(hist[p].file)
                  /\ "deviceId" \in hist[p].file.has) =>
                     ig.deviceId = hist[p].file.deviceId

\* C32 (as stated): whenever login returns a user, by whichever path, the
\* value has exactly the fields pk, username and fullName.
C32_UserInfoOnEveryPath ==
    \A p \in Calls :
        (op[p] = "login" /\ pc[p] = "done" /\ ret[p].kind = "user") =>
            DOMAIN ret[p] = {"kind", "pk", "username", "fullName"}

\* C33 (as stated): sendMessage always ends by returning a boolean, true
\* exactly when the send request succeeded.
C33_SendMessageNeverThrows ==
    \A p \in Calls :
        (op[p] = "sendMessage" /\ pc[p] = "done") =>
            ret[p] = Bool(Printed(out[p].msgs, "Message sent"))

\* C34: getCurrentUser ends by returning, never by throwing: the user's pk,
\* username and fullName in the step in which its own currentUser request
\* succeeded (which it makes only once loadSession gave true), and null in
\* every other step that ends it; whoami then prints the username or
\* "Not logged in" and the process exits with 0.
C34_GetCurrentUserNeverThrows ==
    [][\A p \in Calls :
          (op'[p] = "getCurrentUser" /\ pc[p] # "done" /\ pc'[p] = "done") =>
             /\ ret'[p] # Thrown
             /\ IF GetCurrentUser(p, "ok")
                THEN /\ ret'[p] = UserInfo(ServerUser(issued[reqSid[p]]))
                     /\ reqSid[p] \in valid
                     /\ hist[p].file.exists /\ JsonParses(hist[p].file)
                     /\ CommandPrints("getCurrentUser", ret'[p]) = <<"Logged in as">>
                ELSE /\ ret'[p] = Null
                     /\ CommandPrints("getCurrentUser", ret'[p]) = <<"Not logged in">>
             /\ ExitCode(ret'[p]) = 0]_vars

\* getCurrentUser with a session file that is not JSON has returned null.
C34_Witness ==
    \E p \in Calls :
        /\ op[p] = "getCurrentUser" /\ pc[p] = "done" /\ ret[p] = Null
        /\ hist[p].file.exists /\ ~JsonParses(hist[p].file)

\* C35: when the inbox request brought n threads, showInbox lists the first
\* min(n, 10) of them in the order they came and reports "Showing min(n, 10)
\* of n"; when it brought none it prints "No conversations found." and
\* nothing else.
C35_InboxShowsFirstTen ==
    [][\A p \in Calls, f \in Feeds :
          (pc[p] = "inbox_items" /\ FeedItems(p, "ok", f)) =>
             LET n == Len(items(f))
                 m == IF n < 10 THEN n ELSE 10
             IN IF n = 0
                THEN /\ out'[p].msgs = Append(out[p].msgs, "No conversations found.")
                     /\ out'[p].listed = <<>>
                     /\ out'[p].shown = 0 /\ out'[p].total = 0
                ELSE /\ Len(out'[p].listed) = m
                     /\ \A i \in 1..m : out'[p].listed[i] = items(f)[i]
                     /\ out'[p].shown = m
                     /\ out'[p].total = n
                     /\ out'[p].msgs = out[p].msgs]_vars

\* An inbox of more than ten threads has been shown.
C35_Witness ==
    \E p \in Calls :
        /\ op[p] = "showInbox" /\ pc[p] = "done"
        /\ out[p].total > 10 /\ out[p].shown = 10 /\ Len(out[p].listed) = 10
        /\ out[p].listed[1] = items(hist[p].feed)[1]

====
